---------------------------- MODULE Spec2Model ----------------------------
(***************************************************************************)
(* rusty-pin: a client of the Pinboard bookmark service.                   *)
(*                                                                         *)
(*   src/src/pinboard/api.rs   the Remote Client (Api)                     *)
(*   src/src/pinboard/mod.rs   the Synchronizer (Pinboard), the snapshot   *)
(*                             files and the search functions              *)
(*   src/src/lib.rs            the bookmark record (Pin)                   *)
(*                                                                         *)
(* Two specifications share the variables below.  Spec is the Pinboard     *)
(* object with its cache directory and the remote account; SpecAnyDisk is  *)
(* the same machine started on an arbitrary cache directory; SpecApi       *)
(* applies the Remote Client's operations to enumerated server responses.  *)
(***************************************************************************)
EXTENDS Integers, Sequences, FiniteSets, TLC

VARIABLES
    alive,        \* TRUE while a Pinboard value exists (mod.rs:25-30)
    fuzzy_search, \* cfg.fuzzy_search (mod.rs:55-57)
    cached_pins,  \* Pinboard.cached_pins : Option<Vec<Pin>>
    cached_tags,  \* Pinboard.cached_tags : Option<Vec<Tag>>
    pins_file,    \* content of cfg.pins_cache_file on disk
    tags_file,    \* content of cfg.tags_cache_file on disk
    written_by,   \* bookkeeping: the synchronization pass that wrote each file
    remote_gen,   \* the remote account holds the bookmarks 1..remote_gen
    pass,         \* number of update_cache calls started so far
    pc,           \* position inside update_cache, "idle" between calls
    buf,          \* update_cache's serialized buffer awaiting write_all
    synced,       \* bookkeeping: what the last successful update_cache on this
                  \* Pinboard value fetched
    ret,          \* the last call on Pinboard and what it returned
    api_ret       \* the last call on Api and what it returned

vars == <<alive, fuzzy_search, cached_pins, cached_tags, pins_file, tags_file,
          written_by, remote_gen, pass, pc, buf, synced, ret, api_ret>>

pinboard_vars == <<alive, fuzzy_search, cached_pins, cached_tags, pins_file,
                   tags_file, written_by, remote_gen, pass, pc, buf, synced, ret>>

\* ret and api_ret: no call made yet; a call, its arguments and what it
\* returned
NoCall == [op |-> "none"]
Call(op, arg, val) == [op |-> op, arg |-> arg, val |-> val]

----------------------------------------------------------------------------
(* Bounds of the model.                                                    *)

\* bookmarks the remote account can come to hold
MaxGen == 2
\* update_cache calls per behaviour
MaxPass == 2
\* timestamps range over 0..MaxTime
MaxTime == 1
\* raw records in a /posts/all payload
MaxRecords == 3
\* characters in a search query
MaxQuery == 1
\* entries in a /tags/get payload that is a list
MaxList == 2
\* entries in a /posts/suggest payload
MaxEntries == 3
\* characters in a stored text of the search specification
MaxText == 3
\* characters in a query of the search specification
MaxPattern == 3
\* tags in a tag list handed to Pin::new, set_tags and set_tags_str
MaxTags == 2
\* records in a collection written to the Snapshot Store and read back
MaxStored == 2

----------------------------------------------------------------------------
(* Option and Result.                                                      *)

None == [tag |-> "None"]
Some(x) == [tag |-> "Some", val |-> x]
Ok(x) == [tag |-> "Ok", val |-> x]
Err(e) == [tag |-> "Err", err |-> e]
\* a panic (assert!, expect): the thread unwinds, nothing is returned
Panic(m) == [tag |-> "Panic", msg |-> m]
Unit == "()"
\* a call that has not returned yet
Running == [tag |-> "Running"]

IsOk(r) == r.tag = "Ok"
IsErr(r) == r.tag = "Err"
IsPanic(r) == r.tag = "Panic"

\* Result::and_then, with a panic passing through
AndThen(r, F(_)) == IF IsOk(r) THEN F(r.val) ELSE r

----------------------------------------------------------------------------
(* Text: a string is a sequence of one-character strings.                  *)

Lower(c) ==
    CASE c = "A" -> "a"
      [] c = "B" -> "b"
      [] c = "C" -> "c"
      [] c = "T" -> "t"
      [] OTHER -> c

\* str::to_lowercase
to_lowercase(s) == [i \in DOMAIN s |-> Lower(s[i])]

\* str::contains(&str): q occurs in s as a contiguous substring
str_contains(s, q) ==
    \E i \in 0..(Len(s) - Len(q)) : \A j \in 1..Len(q) : s[i + j] = q[j]


----------------------------------------------------------------------------
(* JSON text as the Remote Client decodes it.  NotJson is a body that      *)
(* serde_json cannot parse at all.                                         *)

NotJson == [t |-> "notjson"]
JNull == [t |-> "null"]
JStr(s) == [t |-> "str", s |-> s]
JNum(n) == [t |-> "num", n |-> n]
JArr(items) == [t |-> "arr", items |-> items]
\* an object: a function from its keys to JSON values
JObj(f) == [t |-> "obj", f |-> f]
NoFields == [k \in {} |-> JNull]
\* the object {k: v}
OneField(k, v) == [n \in {k} |-> v]

IsStr(v) == v.t = "str"
HasStr(o, k) == k \in DOMAIN o.f /\ IsStr(o.f[k])

\* the elements of a sequence
Range(s) == {s[i] : i \in DOMAIN s}

\* all sequences over S of length 0..n
SeqsUpTo(S, n) == UNION {[1..k -> S] : k \in 0..n}

----------------------------------------------------------------------------
(* The bookmark record, src/src/lib.rs.                                    *)

\* struct Pin; time, meta and hash are carried by serde and never read by
\* the operations modelled here
Pin(url, title, tags, shared, toread, extended, tag_list) ==
    [url |-> url, title |-> title, tags |-> tags, shared |-> shared,
     toread |-> toread, extended |-> extended, tag_list |-> tag_list]

\* Tag is a (name, frequency) pair: item.0, tags[0].1
Tag(name, freq) == <<name, freq>>

\* Url::parse: a scheme, then ':'; schemes are one letter long here
url_parse_ok(s) ==
    /\ Len(s) >= 2
    /\ s[1] \in {"h", "f"}
    /\ s[2] = ":"

\* serde's Deserialize for Pin on one raw JSON record: the five string
\* fields are required, extended is optional, tag_list is skipped and so
\* left empty
pin_from_value(v) ==
    IF /\ v.t = "obj"
       /\ \A k \in {"href", "description", "tags", "shared", "toread"} :
              HasStr(v, k)
       /\ "extended" \in DOMAIN v.f => (IsStr(v.f["extended"]) \/ v.f["extended"] = JNull)
    THEN Some(Pin(v.f["href"].s, v.f["description"].s, v.f["tags"].s,
                  v.f["shared"].s, v.f["toread"].s,
                  IF "extended" \in DOMAIN v.f /\ IsStr(v.f["extended"])
                  THEN Some(v.f["extended"].s) ELSE None,
                  <<>>))
    ELSE None

\* Pin::new
Pin_new(url, title, tags, private, read, desc) ==
    Pin(url, title, <<>>, IF private THEN "no" ELSE "yes",
        IF read THEN "yes" ELSE "no", desc, tags)

\* Pin::set_tags_str
set_tags_str(p, tags) == [p EXCEPT !.tag_list = tags]

\* Pin::set_tags
set_tags(p, tags) == [p EXCEPT !.tag_list = tags]

----------------------------------------------------------------------------
(* The Remote Client, src/src/pinboard/api.rs.                             *)

ApiError(kind, msg) == [kind |-> kind, msg |-> msg]

\* StatusCode::is_success
is_success(status) == status >= 200 /\ status <= 299

\* StatusCode::canonical_reason: None for a code with no registered phrase
canonical_reason(status) ==
    CASE status = 200 -> Some("OK")
      [] status = 201 -> Some("Created")
      [] status = 401 -> Some("Unauthorized")
      [] status = 404 -> Some("Not Found")
      [] status = 429 -> Some("Too Many Requests")
      [] status = 500 -> Some("Internal Server Error")
      [] OTHER -> None

\* A server reply as get_api_response meets it: how send() ended, the
\* status line, whether the body could be read, and the body.
Reply(net, status, readable, body) ==
    [net |-> net, status |-> status, readable |-> readable, body |-> body]

\* requests sent by one get_api_response call: client.get(api_url).send()
requests_sent(reply) == 1

\* Api::get_api_response.  BASE_URL and the endpoint paths are constants
\* that parse, so the UrlError branch and add_auth_token's expect are dead.
get_api_response(reply) ==
    IF reply.net = "io" THEN Err(ApiError("Msg", "io error"))
    ELSE IF reply.net # "ok" THEN Err(ApiError("Network", "Network request error"))
    ELSE IF is_success(reply.status)
    THEN IF reply.readable THEN Ok(reply.body)
         ELSE Err(ApiError("Io", "read_to_string"))
    ELSE IF canonical_reason(reply.status) = None THEN Panic("UNKNOWN RESPONSE")
    ELSE Err(ApiError("ServerError", canonical_reason(reply.status).val))


\* serde_json::from_str::<ApiResult>: an object whose result_code and
\* result, when present, are strings; a missing field is "" (serde default)
parse_ApiResult(body) ==
    IF /\ body.t = "obj"
       /\ \A k \in {"result_code", "result"} \cap DOMAIN body.f : IsStr(body.f[k])
    THEN Ok([result_code |-> IF "result_code" \in DOMAIN body.f
                             THEN body.f["result_code"].s ELSE "",
             result |-> IF "result" \in DOMAIN body.f
                        THEN body.f["result"].s ELSE ""])
    ELSE Err(ApiError("UnrecognizedResponse", "serde"))

\* ApiResult::ok with the two fields swapped in the error branch
ApiResult_ok_PrefersResult(r) ==
    IF r.result_code = "done" \/ r.result = "done" THEN Ok(Unit)
    ELSE IF r.result # "" THEN Err(ApiError("Msg", r.result))
    ELSE Err(ApiError("Msg", r.result_code))

\* ApiResult::ok
ApiResult_ok(r) ==
    IF r.result_code = "done" \/ r.result = "done" THEN Ok(Unit)
    ELSE IF r.result_code # "" THEN Err(ApiError("Msg", r.result_code))
    ELSE Err(ApiError("Msg", r.result))

\* Api::add_url: the reply to /posts/add, decoded and normalized
add_url(reply) ==
    AndThen(AndThen(get_api_response(reply), parse_ApiResult), ApiResult_ok)

\* Api::delete: the reply to /posts/delete
delete(reply) ==
    AndThen(AndThen(get_api_response(reply), parse_ApiResult), ApiResult_ok)

\* Api::tag_rename: the reply to /tags/rename
tag_rename(reply) ==
    AndThen(AndThen(get_api_response(reply), parse_ApiResult), ApiResult_ok)

\* Api::tag_delete: the reply to /tags/delete
tag_delete(reply) ==
    AndThen(AndThen(get_api_response(reply), parse_ApiResult), ApiResult_ok)

\* the raw records of a /posts/all array that decode as a Pin, decoded
decoded_pins(items) ==
    LET opts == [i \in DOMAIN items |-> pin_from_value(items[i])]
        some == SelectSeq(opts, LAMBDA o : o # None)
    IN  [i \in DOMAIN some |-> some[i].val]

\* Api::all_pins without the Url::parse filter
all_pins_NoUrlFilter(reply) ==
    LET res == get_api_response(reply) IN
    IF ~IsOk(res) THEN res
    ELSE IF res.val = NotJson THEN Err(ApiError("Json", "serde_json"))
    ELSE IF res.val.t # "arr"
    THEN Err(ApiError("UnrecognizedResponse", "array of bookmarks expected from server"))
    ELSE Ok(decoded_pins(res.val.items))

\* Api::all_pins
all_pins(reply) ==
    LET res == get_api_response(reply) IN
    IF ~IsOk(res) THEN res
    ELSE IF res.val = NotJson THEN Err(ApiError("Json", "serde_json"))
    ELSE IF res.val.t # "arr"
    THEN Err(ApiError("UnrecognizedResponse", "array of bookmarks expected from server"))
    ELSE Ok(SelectSeq(decoded_pins(res.val.items),
                      LAMBDA p : url_parse_ok(p.url)))

\* serde_json::from_str::<HashMap<String, usize>>
is_count_map(body) ==
    /\ body.t = "obj"
    /\ \A k \in DOMAIN body.f : body.f[k].t = "num" /\ body.f[k].n >= 0

\* serde_json::from_str::<Vec<HashMap<String, String>>>
is_list_of_string_maps(body) ==
    /\ body.t = "arr"
    /\ \A i \in DOMAIN body.items :
          /\ body.items[i].t = "obj"
          /\ \A k \in DOMAIN body.items[i].f : IsStr(body.items[i].f[k])

\* the orders in which a HashMap over the keys K can be iterated
Orders(K) == {o \in [1..Cardinality(K) -> K] : Range(o) = K}

\* Api::tags_frequency; order is the iteration order of the decoded HashMap
tags_frequency(reply, order) ==
    LET res == get_api_response(reply) IN
    IF ~IsOk(res) THEN res
    ELSE IF is_count_map(res.val)
    THEN Ok([i \in DOMAIN order |-> Tag(order[i], res.val.f[order[i]].n)])
    ELSE IF ~is_list_of_string_maps(res.val) THEN Err(ApiError("Json", "serde_json"))
    ELSE IF res.val.items # <<>> THEN Panic("assertion failed: raw_tags.is_empty()")
    ELSE Ok(<<>>)

\* the HashMap iteration orders tags_frequency can meet on a reply
TagOrders(reply) ==
    IF reply.body.t = "obj" THEN Orders(DOMAIN reply.body.f) ELSE {<<>>}

\* a timestamp's text is <<"ts", t>>; DateTime<Utc>'s Deserialize takes t
\* from it and rejects any other text
is_UpdateTime(body) ==
    /\ body.t = "obj"
    /\ HasStr(body, "update_time")
    /\ body.f["update_time"].s # <<>>
    /\ body.f["update_time"].s[1] = "ts"

\* Api::recent_update
recent_update(reply) ==
    LET res == get_api_response(reply) IN
    IF ~IsOk(res) THEN res
    ELSE IF ~is_UpdateTime(res.val) THEN Err(ApiError("SerdeError", "serde_json"))
    ELSE Ok(res.val.f["update_time"].s[2])

\* serde_json's Index<&str> for Value: item["popular"] is Null when item is
\* no object or has no such key
popular_of(item) ==
    IF item.t = "obj" /\ "popular" \in DOMAIN item.f THEN item.f["popular"]
    ELSE JNull

\* .as_array().unwrap_or(&vec![json!([])]) and then, per element,
\* v.as_str().unwrap_or("").to_string()
popular_strings(v) ==
    LET elems == IF v.t = "arr" THEN v.items ELSE <<JArr(<<>>)>>
    IN  [i \in DOMAIN elems |-> IF IsStr(elems[i]) THEN elems[i].s ELSE ""]

\* Api::suggest_tags taking the last entry with a non-null "popular"
suggest_tags_LastPopular(reply) ==
    LET res == get_api_response(reply) IN
    IF ~IsOk(res) THEN res
    ELSE IF res.val.t # "arr" THEN Err(ApiError("SerdeError", "serde_json"))
    ELSE LET found == {i \in DOMAIN res.val.items :
                          popular_of(res.val.items[i]) # JNull}
         IN  IF found = {}
             THEN Err(ApiError("UnrecognizedResponse",
                               "Unrecognized response from API: posts/suggest"))
             ELSE LET last == CHOOSE i \in found : \A j \in found : j <= i
                  IN  Ok(popular_strings(popular_of(res.val.items[last])))

\* Api::suggest_tags
suggest_tags(reply) ==
    LET res == get_api_response(reply) IN
    IF ~IsOk(res) THEN res
    ELSE IF res.val.t # "arr" THEN Err(ApiError("SerdeError", "serde_json"))
    ELSE LET found == {i \in DOMAIN res.val.items :
                          popular_of(res.val.items[i]) # JNull}
         IN  IF found = {}
             THEN Err(ApiError("UnrecognizedResponse",
                               "Unrecognized response from API: posts/suggest"))
             ELSE LET first == CHOOSE i \in found : \A j \in found : i <= j
                  IN  Ok(popular_strings(popular_of(res.val.items[first])))


----------------------------------------------------------------------------
(* The remote account and the replies the server can give.                 *)

Letters == <<"a", "b", "c">>
L(i) == Letters[((i - 1) % Len(Letters)) + 1]

\* the i-th bookmark of the account, as all_pins decodes it
PinOf(i) == Pin(<<"h", ":", L(i)>>, <<"T", L(i)>>, <<L(i)>>, "yes", "no",
                Some(<<>>), <<>>)

\* the account's bookmarks once it holds g of them
RemotePins(g) == [i \in 1..g |-> PinOf(i)]

\* a bookmark as the server writes it in /posts/all
PinJson(p) ==
    JObj([href |-> JStr(p.url), description |-> JStr(p.title),
          tags |-> JStr(p.tags), shared |-> JStr(p.shared),
          toread |-> JStr(p.toread), extended |-> JStr(<<>>)])

\* the body of /posts/all once the account holds g bookmarks
PinsBody(g) == JArr([i \in 1..g |-> PinJson(PinOf(i))])

\* the body of /tags/get: name -> count, and [] for an account without tags
TagsBody(g) ==
    IF g = 0 THEN JArr(<<>>)
    ELSE JObj([n \in {<<L(i)>> : i \in 1..g} |->
                  JNum(Cardinality({i \in 1..g : <<L(i)>> = n}))])

Statuses == {200, 201, 404, 429, 500, 599}

\* every way a request can end, over the bodies B
Replies(B) ==
    {Reply(n, 200, TRUE, NotJson) : n \in {"io", "net"}}
    \cup {Reply("ok", st, TRUE, b) : st \in Statuses, b \in B}
    \cup {Reply("ok", 200, FALSE, NotJson)}

\* the ways a request to a healthy or failing server ends when the body of
\* a success is b
ServerReplies(b) ==
    {Reply("ok", 200, TRUE, b), Reply("ok", 429, TRUE, NotJson),
     Reply("ok", 599, TRUE, NotJson), Reply("net", 200, TRUE, NotJson)}

ResultStrings == {"", "done", "item not found", "rename to null"}

\* bodies of the mutation endpoints: result_code and result, each present
\* or missing; one body that is not JSON and one of the wrong shape
MutationBodies ==
    {JObj(f) : f \in UNION {[K -> {JStr(x) : x \in ResultStrings}] :
                              K \in SUBSET {"result_code", "result"}}}
    \cup {NotJson, JObj([result |-> JNum(1)])}

\* raw records of a /posts/all array: two that decode, one whose URL does
\* not parse, one with a field missing, one that is no object
RawRecords ==
    {PinJson(PinOf(1)), PinJson(PinOf(2)),
     PinJson(Pin(<<":", "a">>, <<"T">>, <<>>, "yes", "no", None, <<>>)),
     JObj([href |-> JStr(<<"h", ":", "c">>)]),
     JNum(7)}

PinsBodies ==
    {JArr(s) : s \in SeqsUpTo(RawRecords, MaxRecords)}
    \cup {NotJson, JNull, JObj(NoFields)}

TagNames == {<<"a">>, <<"b">>}

\* bodies of /tags/get: mappings, lists, and bodies of neither shape
TagsBodies ==
    {JObj(f) : f \in UNION {[K -> {JNum(n) : n \in 0..2}] : K \in SUBSET TagNames}}
    \cup {JArr(s) : s \in SeqsUpTo({JObj(NoFields), JObj(OneField(<<"a">>, JStr("1"))),
                                     JNum(1)}, MaxList)}
    \cup {NotJson, JNull, JObj(OneField(<<"a">>, JStr("1"))),
          JObj(OneField(<<"a">>, JNum(-1)))}

Times == 0..MaxTime

UpdateBodies ==
    {JObj([update_time |-> JStr(<<"ts", t>>)]) : t \in Times}
    \cup {NotJson, JObj(NoFields), JObj([update_time |-> JStr(<<"yesterday">>)])}

\* entries of a /posts/suggest list: with and without "popular", with a
\* null one, with one that is no array, with one holding a non-string
SuggestEntries ==
    {JObj([popular |-> JArr(<<JStr("rust"), JStr("library")>>)]),
     JObj([popular |-> JArr(<<JStr("datetime")>>)]),
     JObj([recommended |-> JArr(<<JStr("rust")>>)]),
     JObj([popular |-> JNull]),
     JObj([popular |-> JStr("rust")]),
     JObj([popular |-> JArr(<<JNum(1), JStr("rust")>>)]),
     JNum(7)}

\* bodies of /posts/suggest
SuggestBodies ==
    {JArr(s) : s \in SeqsUpTo(SuggestEntries, MaxEntries)}
    \cup {NotJson, JObj([popular |-> JArr(<<JStr("rust")>>)])}

----------------------------------------------------------------------------
(* SpecApi: one call of a Remote Client operation on each reply enumerated  *)
(* above; api_ret keeps the call and its result.                            *)

ApiCall(op, reply, result) ==
    [op |-> op, reply |-> reply, result |-> result, requests |-> requests_sent(reply)]

ApiAllPins ==
    /\ api_ret = NoCall
    /\ \E reply \in Replies(PinsBodies) :
          /\ api_ret' = ApiCall("all_pins", reply, all_pins(reply))
          /\ UNCHANGED pinboard_vars

ApiTagsFrequency ==
    /\ api_ret = NoCall
    /\ \E reply \in Replies(TagsBodies) : \E order \in TagOrders(reply) :
          /\ api_ret' = ApiCall("tags_frequency", reply, tags_frequency(reply, order))
          /\ UNCHANGED pinboard_vars

ApiAddUrl ==
    /\ api_ret = NoCall
    /\ \E reply \in Replies(MutationBodies) :
          /\ api_ret' = ApiCall("add_url", reply, add_url(reply))
          /\ UNCHANGED pinboard_vars

ApiDelete ==
    /\ api_ret = NoCall
    /\ \E reply \in Replies(MutationBodies) :
          /\ api_ret' = ApiCall("delete", reply, delete(reply))
          /\ UNCHANGED pinboard_vars

ApiTagRename ==
    /\ api_ret = NoCall
    /\ \E reply \in Replies(MutationBodies) :
          /\ api_ret' = ApiCall("tag_rename", reply, tag_rename(reply))
          /\ UNCHANGED pinboard_vars

ApiTagDelete ==
    /\ api_ret = NoCall
    /\ \E reply \in Replies(MutationBodies) :
          /\ api_ret' = ApiCall("tag_delete", reply, tag_delete(reply))
          /\ UNCHANGED pinboard_vars

ApiSuggestTags ==
    /\ api_ret = NoCall
    /\ \E reply \in Replies(SuggestBodies) :
          /\ api_ret' = ApiCall("suggest_tags", reply, suggest_tags(reply))
          /\ UNCHANGED pinboard_vars

ApiRecentUpdate ==
    /\ api_ret = NoCall
    /\ \E reply \in Replies(UpdateBodies) :
          /\ api_ret' = ApiCall("recent_update", reply, recent_update(reply))
          /\ UNCHANGED pinboard_vars


----------------------------------------------------------------------------
(* The Snapshot Store: the two cache files, src/src/pinboard/mod.rs.       *)

\* no such file
Absent == [kind |-> "absent"]
\* a file of length 0, as File::create leaves it
Truncated == [kind |-> "empty"]
\* a file holding part of a serialized collection (write_all failed)
Partial == [kind |-> "partial"]
\* a file holding the single MessagePack value nil
NilFile == [kind |-> "nil"]
\* a file holding a MessagePack array of records
ArrayFile(items) == [kind |-> "array", items |-> items]

\* rmp-serde's encoding of a Pin: its fields in order, tag_list skipped
pin_to_wire(p) == <<p.url, p.title, p.tags, p.shared, p.toread, p.extended>>

\* rmp-serde's decoding of a Pin: tag_list is not on the wire and is empty
pin_from_wire(w) == Pin(w[1], w[2], w[3], w[4], w[5], w[6], <<>>)

\* pins.serialize(&mut Serializer::new(&mut buf)); writing into a Vec<u8>
\* cannot fail
serialize_pins(pins) == ArrayFile([i \in DOMAIN pins |-> pin_to_wire(pins[i])])

\* tags_tuple.serialize(...): each Tag is a two-element array
serialize_tags(tags) == ArrayFile([i \in DOMAIN tags |-> <<tags[i][1], tags[i][2]>>])

\* File::open, then Deserialize::deserialize into Option<Vec<Pin>>: nil
\* decodes as None, an array as Some, anything else is an error
load_pins(file) ==
    CASE file.kind = "absent" -> Err("entity not found")
      [] file.kind = "nil" -> Ok(None)
      [] file.kind = "array" ->
            Ok(Some([i \in DOMAIN file.items |-> pin_from_wire(file.items[i])]))
      [] OTHER -> Err("deserialize error")

\* the same for Option<Vec<Tag>>
load_tags(file) ==
    CASE file.kind = "absent" -> Err("entity not found")
      [] file.kind = "nil" -> Ok(None)
      [] file.kind = "array" ->
            Ok(Some([i \in DOMAIN file.items |-> Tag(file.items[i][1], file.items[i][2])]))
      [] OTHER -> Err("deserialize error")

\* Pinboard::get_cached_pins: what it returns and what cached_pins becomes
get_cached_pins ==
    IF cached_pins # None THEN [ret |-> Ok(Unit), cached |-> cached_pins]
    ELSE LET r == load_pins(pins_file) IN
         IF IsOk(r) THEN [ret |-> Ok(Unit), cached |-> r.val]
         ELSE [ret |-> r, cached |-> cached_pins]

\* Pinboard::get_cached_tags
get_cached_tags ==
    IF cached_tags # None THEN [ret |-> Ok(Unit), cached |-> cached_tags]
    ELSE LET r == load_tags(tags_file) IN
         IF IsOk(r) THEN [ret |-> Ok(Unit), cached |-> r.val]
         ELSE [ret |-> r, cached |-> cached_tags]

----------------------------------------------------------------------------
(* The Search Engine.                                                      *)

\* Pin::contains, lib.rs
Pin_contains(p, q) ==
    str_contains(p.url, q) \/ str_contains(p.title, q) \/ str_contains(p.tags, q)

\* Regex::new("(?i)" + the query's characters joined by ".*"): of the
\* query characters used here only '(' makes the pattern invalid
regex_compiles(q) == \A i \in DOMAIN q : q[i] # "("

\* one pattern character against one text character under (?i): '.'
\* matches every character but the line feed
regex_char(c, t) == IF c = "." THEN t # "\n" ELSE Lower(c) = Lower(t)

\* the rest of a pattern, .*c2.* ... cn, in text from position from on:
\* each .* runs over characters that are no line feed
RECURSIVE regex_rest(_, _, _)
regex_rest(q, text, from) ==
    IF q = <<>> THEN TRUE
    ELSE \E k \in from..Len(text) :
            /\ \A j \in from..(k - 1) : text[j] # "\n"
            /\ regex_char(Head(q), text[k])
            /\ regex_rest(Tail(q), text, k + 1)

\* an unanchored match of c1.*c2.* ... cn in text from position from on
regex_match(q, text, from) ==
    IF q = <<>> THEN TRUE
    ELSE \E k \in from..Len(text) :
            regex_char(Head(q), text[k]) /\ regex_rest(Tail(q), text, k + 1)

\* Pin::contains_fuzzy: the pattern against the fields Pin::contains reads
Pin_contains_fuzzy(p, q) ==
    regex_match(q, p.url, 1) \/ regex_match(q, p.title, 1) \/ regex_match(q, p.tags, 1)

\* the body of Pinboard::search_items without the match on r.len(): an
\* empty list where there should be no result set
search_loaded_pins_EmptyList(pins, q, fuzzy) ==
    IF ~fuzzy
    THEN Ok(Some(SelectSeq(pins, LAMBDA item : Pin_contains(item, to_lowercase(q)))))
    ELSE IF ~regex_compiles(q) THEN Err("Can't search for given query!")
    ELSE Ok(Some(SelectSeq(pins, LAMBDA item : Pin_contains_fuzzy(item, q))))

\* the body of Pinboard::search_items once the pins are loaded
search_loaded_pins(pins, q, fuzzy) ==
    IF ~fuzzy
    THEN LET r == SelectSeq(pins, LAMBDA item : Pin_contains(item, to_lowercase(q)))
         IN  IF Len(r) = 0 THEN Ok(None) ELSE Ok(Some(r))
    ELSE IF ~regex_compiles(q) THEN Err("Can't search for given query!")
    ELSE LET r == SelectSeq(pins, LAMBDA item : Pin_contains_fuzzy(item, q))
         IN  IF Len(r) = 0 THEN Ok(None) ELSE Ok(Some(r))

\* the body of Pinboard::search_tag_field once the tags are loaded
search_loaded_tags(tags, q, fuzzy) ==
    IF ~fuzzy
    THEN LET r == SelectSeq(tags, LAMBDA item :
                      str_contains(to_lowercase(item[1]), to_lowercase(q)))
         IN  IF Len(r) = 0 THEN Ok(None) ELSE Ok(Some(r))
    ELSE IF ~regex_compiles(q) THEN Err("Can't search for given query!")
    ELSE LET r == SelectSeq(tags, LAMBDA item : regex_match(q, item[1], 1))
         IN  IF Len(r) = 0 THEN Ok(None) ELSE Ok(Some(r))

QueryChars == {"a", "T", "(", "."}
Queries == SeqsUpTo(QueryChars, MaxQuery)


----------------------------------------------------------------------------
(* The Synchronizer: struct Pinboard, src/src/pinboard/mod.rs.             *)

\* the cache directory: both files and who wrote them
Disk == [pins |-> pins_file, tags |-> tags_file, by |-> written_by]

\* The Pinboard value is gone: it was moved, dropped, or the process ended
\* (a panic unwinds through it).  The files stay as they are.
Gone(call) ==
    /\ alive' = FALSE
    /\ cached_pins' = None
    /\ cached_tags' = None
    /\ synced' = None
    /\ buf' = None
    /\ pc' = "idle"
    /\ ret' = call
    /\ UNCHANGED <<fuzzy_search, pins_file, tags_file, written_by, pass, api_ret>>

\* Pinboard::new: builds the value and loads both collections; an error of
\* either load is returned and no value is built.  Config::new is given.
New ==
    /\ ~alive
    /\ pc = "idle"
    /\ LET p == load_pins(pins_file)
           t == load_tags(tags_file)
       IN  IF ~IsOk(p)
           THEN /\ ret' = Call("new", Unit, p)
                /\ UNCHANGED <<alive, fuzzy_search, cached_pins, cached_tags>>
           ELSE IF ~IsOk(t)
           THEN /\ ret' = Call("new", Unit, t)
                /\ UNCHANGED <<alive, fuzzy_search, cached_pins, cached_tags>>
           ELSE /\ ret' = Call("new", Unit, Ok(Unit))
                /\ alive' = TRUE
                /\ fuzzy_search' = FALSE
                /\ cached_pins' = p.val
                /\ cached_tags' = t.val
    /\ UNCHANGED <<pins_file, tags_file, written_by, remote_gen, pass, pc, buf,
                   synced, api_ret>>

\* the Pinboard value is dropped, or the process is interrupted, at any
\* point, also between two steps of update_cache
Drop ==
    /\ alive
    /\ Gone(Call("drop", Unit, Ok(Unit)))
    /\ UNCHANGED remote_gen

\* Pinboard::set_cache_dir to a directory that holds no cache yet; the
\* loaded collections stay
SetCacheDir ==
    /\ alive
    /\ pc = "idle"
    /\ pins_file' = Absent
    /\ tags_file' = Absent
    /\ written_by' = [pins |-> 0, tags |-> 0]
    /\ synced' = None
    /\ ret' = Call("set_cache_dir", Unit, Ok(Unit))
    /\ UNCHANGED <<alive, fuzzy_search, cached_pins, cached_tags, remote_gen,
                   pass, pc, buf, api_ret>>

\* Pinboard::enable_fuzzy_search
EnableFuzzySearch ==
    /\ alive
    /\ pc = "idle"
    /\ \E v \in BOOLEAN :
          /\ fuzzy_search' = v
          /\ ret' = Call("enable_fuzzy_search", v, Ok(Unit))
    /\ UNCHANGED <<alive, cached_pins, cached_tags, pins_file, tags_file,
                   written_by, remote_gen, pass, pc, buf, synced, api_ret>>

\* the server's replies to /posts/add once the account holds g bookmarks:
\* it stores the bookmark and says done, or refuses, or the request fails
AddReplies ==
    ServerReplies(JObj([result_code |-> JStr("done")]))
    \cup {Reply("ok", 200, TRUE, JObj([result_code |-> JStr("missing url")]))}

\* Pinboard::add: moves the Pinboard value into the call and hands the Pin
\* to Api::add_url
Add ==
    /\ alive
    /\ pc = "idle"
    /\ \E reply \in AddReplies :
          /\ add_url(reply) = Ok(Unit) => remote_gen < MaxGen
          /\ Gone(Call("add", reply, add_url(reply)))
          /\ remote_gen' = IF add_url(reply) = Ok(Unit) THEN remote_gen + 1
                           ELSE remote_gen

\* Pinboard::is_cache_outdated
is_cache_outdated(last_update, reply) ==
    AndThen(recent_update(reply), LAMBDA res : Ok(last_update < res))

\* the server's replies to /posts/update
UpdateReplies ==
    UNION {ServerReplies(JObj([update_time |-> JStr(<<"ts", t>>)])) : t \in Times}
    \cup {Reply("ok", 200, TRUE, NotJson)}

IsCacheOutdated ==
    /\ alive
    /\ pc = "idle"
    /\ \E last_update \in Times : \E reply \in UpdateReplies :
          LET call == Call("is_cache_outdated",
                           [last_update |-> last_update, reply |-> reply],
                           is_cache_outdated(last_update, reply))
          IN  IF IsPanic(call.val)
              THEN Gone(call)
              ELSE /\ ret' = call
                   /\ UNCHANGED <<alive, fuzzy_search, cached_pins, cached_tags,
                                  pins_file, tags_file, written_by, pass, pc,
                                  buf, synced, api_ret>>
    /\ UNCHANGED remote_gen

\* Pinboard::search_items: what it returns and what cached_pins becomes
search_items(q) ==
    IF pins_file # Absent
    THEN LET g == get_cached_pins IN
         [cached |-> g.cached,
          ret |-> IF ~IsOk(g.ret) THEN g.ret
                  ELSE IF g.cached = None THEN Ok(None)
                  ELSE search_loaded_pins(g.cached.val, q, fuzzy_search)]
    ELSE [cached |-> cached_pins, ret |-> Err("pins cache file not present")]

SearchItems ==
    /\ alive
    /\ pc = "idle"
    /\ \E q \in Queries :
          /\ cached_pins' = search_items(q).cached
          /\ ret' = Call("search_items", [q |-> q, fuzzy |-> fuzzy_search],
                         search_items(q).ret)
    /\ UNCHANGED <<alive, fuzzy_search, cached_tags, pins_file, tags_file,
                   written_by, remote_gen, pass, pc, buf, synced, api_ret>>

\* Pinboard::search_tag_field: what it returns and what cached_tags becomes
search_tag_field(q) ==
    IF tags_file # Absent
    THEN LET g == get_cached_tags IN
         [cached |-> g.cached,
          ret |-> IF ~IsOk(g.ret) THEN g.ret
                  ELSE IF g.cached = None THEN Ok(None)
                  ELSE search_loaded_tags(g.cached.val, q, fuzzy_search)]
    ELSE [cached |-> cached_tags, ret |-> Err("tags cache file not present")]

SearchTagField ==
    /\ alive
    /\ pc = "idle"
    /\ \E q \in Queries :
          /\ cached_tags' = search_tag_field(q).cached
          /\ ret' = Call("search_tag_field", [q |-> q, fuzzy |-> fuzzy_search],
                         search_tag_field(q).ret)
    /\ UNCHANGED <<alive, fuzzy_search, cached_pins, pins_file, tags_file,
                   written_by, remote_gen, pass, pc, buf, synced, api_ret>>

\* Pinboard::bookmarks
Bookmarks ==
    /\ alive
    /\ pc = "idle"
    /\ ret' = Call("bookmarks", Unit, cached_pins)
    /\ UNCHANGED <<alive, fuzzy_search, cached_pins, cached_tags, pins_file,
                   tags_file, written_by, remote_gen, pass, pc, buf, synced, api_ret>>

\* Pinboard::tag_pairs
TagPairs ==
    /\ alive
    /\ pc = "idle"
    /\ ret' = Call("tag_pairs", Unit, cached_tags)
    /\ UNCHANGED <<alive, fuzzy_search, cached_pins, cached_tags, pins_file,
                   tags_file, written_by, remote_gen, pass, pc, buf, synced, api_ret>>


----------------------------------------------------------------------------
(* Pinboard::update_cache, one action per step that touches a file or the  *)
(* network.  pc names the step about to run.  ret.arg keeps the cache      *)
(* directory as the call found it.                                         *)

\* update_cache returns r
UpdateCacheReturn(r) ==
    /\ ret' = Call("update_cache", ret.arg, r)
    /\ pc' = "idle"
    /\ buf' = None

\* File::create(&self.cfg.pins_cache_file): truncates the file, or fails
UpdateCacheCreatePins ==
    /\ alive
    /\ pc = "idle"
    /\ pass < MaxPass
    /\ pass' = pass + 1
    /\ \E created \in BOOLEAN :
          IF created
          THEN /\ pins_file' = Truncated
               /\ ret' = Call("update_cache", Disk, Running)
               /\ pc' = "all_pins"
          ELSE /\ ret' = Call("update_cache", Disk, Err("File::create"))
               /\ UNCHANGED <<pins_file, pc>>
    /\ UNCHANGED <<alive, fuzzy_search, cached_pins, cached_tags, tags_file,
                   written_by, remote_gen, buf, synced, api_ret>>

\* self.api.all_pins() and the serialization of what it returned
UpdateCacheAllPins ==
    /\ alive
    /\ pc = "all_pins"
    /\ \E reply \in ServerReplies(PinsBody(remote_gen)) :
          LET r == all_pins(reply) IN
          IF IsPanic(r)
          THEN Gone(Call("update_cache", ret.arg, r))
          ELSE /\ IF IsOk(r)
                  THEN /\ buf' = Some(serialize_pins(r.val))
                       /\ pc' = "write_pins"
                       /\ UNCHANGED ret
                  ELSE UpdateCacheReturn(r)
               /\ UNCHANGED <<alive, fuzzy_search, cached_pins, cached_tags,
                              pins_file, tags_file, written_by, pass, synced, api_ret>>
    /\ UNCHANGED remote_gen

\* f.write_all(&data) on the pins file
UpdateCacheWritePins ==
    /\ alive
    /\ pc = "write_pins"
    /\ \E written \in BOOLEAN :
          IF written
          THEN /\ pins_file' = buf.val
               /\ written_by' = [written_by EXCEPT !.pins = pass]
               /\ pc' = "create_tags"
               /\ buf' = None
               /\ UNCHANGED ret
          ELSE /\ pins_file' = Partial
               /\ UpdateCacheReturn(Err("write_all"))
               /\ UNCHANGED written_by
    /\ UNCHANGED <<alive, fuzzy_search, cached_pins, cached_tags, tags_file,
                   remote_gen, pass, synced, api_ret>>

\* File::create(&self.cfg.tags_cache_file)
UpdateCacheCreateTags ==
    /\ alive
    /\ pc = "create_tags"
    /\ \E created \in BOOLEAN :
          IF created
          THEN /\ tags_file' = Truncated
               /\ pc' = "tags_frequency"
               /\ UNCHANGED <<ret, buf>>
          ELSE /\ UpdateCacheReturn(Err("File::create"))
               /\ UNCHANGED tags_file
    /\ UNCHANGED <<alive, fuzzy_search, cached_pins, cached_tags, pins_file,
                   written_by, remote_gen, pass, synced, api_ret>>

\* self.api.tags_frequency() and the serialization of what it returned
UpdateCacheTagsFrequency ==
    /\ alive
    /\ pc = "tags_frequency"
    /\ \E reply \in ServerReplies(TagsBody(remote_gen)) :
       \E order \in TagOrders(reply) :
          LET r == tags_frequency(reply, order) IN
          IF IsPanic(r)
          THEN Gone(Call("update_cache", ret.arg, r))
          ELSE /\ IF IsOk(r)
                  THEN /\ buf' = Some(serialize_tags(r.val))
                       /\ pc' = "write_tags"
                       /\ UNCHANGED ret
                  ELSE UpdateCacheReturn(r)
               /\ UNCHANGED <<alive, fuzzy_search, cached_pins, cached_tags,
                              pins_file, tags_file, written_by, pass, synced, api_ret>>
    /\ UNCHANGED remote_gen

\* f.write_all(&data) on the tags file, the last step: update_cache returns
\* Ok(()) and leaves cached_pins and cached_tags as they were (&self)
UpdateCacheWriteTags ==
    /\ alive
    /\ pc = "write_tags"
    /\ \E written \in BOOLEAN :
          IF written
          THEN /\ tags_file' = buf.val
               /\ written_by' = [written_by EXCEPT !.tags = pass]
               /\ synced' = Some([pins |-> load_pins(pins_file).val.val,
                                  tags |-> load_tags(buf.val).val.val])
               /\ UpdateCacheReturn(Ok(Unit))
          ELSE /\ tags_file' = Partial
               /\ UpdateCacheReturn(Err("write_all"))
               /\ UNCHANGED <<written_by, synced>>
    /\ UNCHANGED <<alive, fuzzy_search, cached_pins, cached_tags, pins_file,
                   remote_gen, pass, api_ret>>

----------------------------------------------------------------------------
(* Specifications.                                                         *)

\* the snapshot an earlier run left after synchronizing with an account of
\* g bookmarks
SnapshotPins(g) == serialize_pins(all_pins(Reply("ok", 200, TRUE, PinsBody(g))).val)
SnapshotTags(g, order) ==
    serialize_tags(tags_frequency(Reply("ok", 200, TRUE, TagsBody(g)), order).val)

InitMemory ==
    /\ alive = FALSE
    /\ fuzzy_search = FALSE
    /\ cached_pins = None
    /\ cached_tags = None
    /\ written_by = [pins |-> 0, tags |-> 0]
    /\ pass = 0
    /\ pc = "idle"
    /\ buf = None
    /\ synced = None
    /\ ret = NoCall
    /\ api_ret = NoCall

\* No Pinboard value yet.  The cache directory is as an earlier run left
\* it: empty, or holding the snapshot of one synchronization pass.
Init ==
    /\ InitMemory
    /\ remote_gen \in 0..MaxGen
    /\ \/ pins_file = Absent /\ tags_file = Absent
       \/ \E g \in 0..remote_gen :
          \E order \in TagOrders(Reply("ok", 200, TRUE, TagsBody(g))) :
             /\ pins_file = SnapshotPins(g)
             /\ tags_file = SnapshotTags(g, order)

\* The same, on a cache directory whose files hold any content.
InitAnyDisk ==
    /\ InitMemory
    /\ remote_gen \in 0..MaxGen
    /\ \E g \in 0..remote_gen :
       \E order \in TagOrders(Reply("ok", 200, TRUE, TagsBody(g))) :
          /\ pins_file \in {Absent, Truncated, Partial, NilFile, SnapshotPins(g)}
          /\ tags_file \in {Absent, Truncated, Partial, NilFile, SnapshotTags(g, order)}

Next ==
    \/ New
    \/ Drop
    \/ SetCacheDir
    \/ EnableFuzzySearch
    \/ Add
    \/ IsCacheOutdated
    \/ SearchItems
    \/ SearchTagField
    \/ Bookmarks
    \/ TagPairs
    \/ UpdateCacheCreatePins
    \/ UpdateCacheAllPins
    \/ UpdateCacheWritePins
    \/ UpdateCacheCreateTags
    \/ UpdateCacheTagsFrequency
    \/ UpdateCacheWriteTags

Spec == Init /\ [][Next]_vars

SpecAnyDisk == InitAnyDisk /\ [][Next]_vars

InitApi ==
    /\ InitMemory
    /\ remote_gen = 0
    /\ pins_file = Absent
    /\ tags_file = Absent

NextApi ==
    \/ ApiAllPins
    \/ ApiTagsFrequency
    \/ ApiAddUrl
    \/ ApiDelete
    \/ ApiTagRename
    \/ ApiTagDelete
    \/ ApiSuggestTags
    \/ ApiRecentUpdate

SpecApi == InitApi /\ [][NextApi]_vars

\* stored texts: every short text over a small alphabet with both cases and
\* a line feed, and the two texts of the documented example
SearchTexts ==
    SeqsUpTo({"d", "T", "m", "\n"}, MaxText)
    \cup {<<"d", "a", "t", "e", "t", "i", "m", "e">>, <<"m", "t", "d">>}

\* queries of ordinary characters
OrdinaryQueries == SeqsUpTo({"d", "t", "M"}, MaxPattern)

\* search_tag_field's two modes over a collection of one Tag
MatchTag ==
    /\ ret = NoCall
    /\ \E text \in SearchTexts : \E q \in OrdinaryQueries :
          ret' = Call("match_tag", [q |-> q, text |-> text],
                      [exact |-> search_loaded_tags(<<Tag(text, 1)>>, q, FALSE),
                       fuzzy |-> search_loaded_tags(<<Tag(text, 1)>>, q, TRUE)])
    /\ UNCHANGED <<alive, fuzzy_search, cached_pins, cached_tags, pins_file,
                   tags_file, written_by, remote_gen, pass, pc, buf, synced, api_ret>>

\* search_items' two modes over a collection of one Pin with that title
MatchPin ==
    /\ ret = NoCall
    /\ \E text \in SearchTexts : \E q \in OrdinaryQueries :
          LET pin == Pin(<<"h", ":">>, text, <<>>, "yes", "no", None, <<>>) IN
          ret' = Call("match_pin", [q |-> q, text |-> text],
                      [exact |-> search_loaded_pins(<<pin>>, q, FALSE),
                       fuzzy |-> search_loaded_pins(<<pin>>, q, TRUE)])
    /\ UNCHANGED <<alive, fuzzy_search, cached_pins, cached_tags, pins_file,
                   tags_file, written_by, remote_gen, pass, pc, buf, synced, api_ret>>

NextSearch ==
    \/ MatchTag
    \/ MatchPin

SpecSearch == InitApi /\ [][NextSearch]_vars

\* tag lists a caller hands to Pin::new, set_tags and set_tags_str
TagLists == SeqsUpTo(TagNames, MaxTags)

PinOps == {"Pin::new", "set_tags", "set_tags_str"}

\* Pin::new; ret keeps the Pin
PinNew ==
    /\ ret = NoCall
    /\ \E tags \in TagLists : \E private \in BOOLEAN : \E read \in BOOLEAN :
          ret' = Call("Pin::new", [tags |-> tags],
                      Pin_new(<<"h", ":", "a">>, <<"T", "a">>, tags, private, read, None))
    /\ UNCHANGED <<alive, fuzzy_search, cached_pins, cached_tags, pins_file,
                   tags_file, written_by, remote_gen, pass, pc, buf, synced, api_ret>>

\* Pin::set_tags on the Pin built so far
PinSetTags ==
    /\ ret.op \in PinOps
    /\ \E tags \in TagLists :
          ret' = Call("set_tags", [tags |-> tags], set_tags(ret.val, tags))
    /\ UNCHANGED <<alive, fuzzy_search, cached_pins, cached_tags, pins_file,
                   tags_file, written_by, remote_gen, pass, pc, buf, synced, api_ret>>

\* Pin::set_tags_str on the Pin built so far
PinSetTagsStr ==
    /\ ret.op \in PinOps
    /\ \E tags \in TagLists :
          ret' = Call("set_tags_str", [tags |-> tags], set_tags_str(ret.val, tags))
    /\ UNCHANGED <<alive, fuzzy_search, cached_pins, cached_tags, pins_file,
                   tags_file, written_by, remote_gen, pass, pc, buf, synced, api_ret>>

\* a collection holding the Pin built so far and Pins all_pins decoded, and
\* a Tag collection, serialized as update_cache serializes them and loaded
\* as get_cached_pins and get_cached_tags load them
StoreThenLoad ==
    /\ ret.op \in PinOps
    /\ \E pins \in SeqsUpTo({ret.val, PinOf(1), PinOf(2)}, MaxStored) :
       \E tags \in SeqsUpTo({Tag(<<"a">>, 1), Tag(<<"b">>, 0)}, MaxStored) :
          ret' = Call("store_then_load", [pins |-> pins, tags |-> tags],
                      [pins |-> load_pins(serialize_pins(pins)),
                       tags |-> load_tags(serialize_tags(tags))])
    /\ UNCHANGED <<alive, fuzzy_search, cached_pins, cached_tags, pins_file,
                   tags_file, written_by, remote_gen, pass, pc, buf, synced, api_ret>>

NextRecord ==
    \/ PinNew
    \/ PinSetTags
    \/ PinSetTagsStr
    \/ StoreThenLoad

SpecRecord == InitApi /\ [][NextRecord]_vars


----------------------------------------------------------------------------
(* Properties of the Synchronizer and the Snapshot Store.                  *)

\* a cache directory that holds no snapshot, or one whole snapshot: both
\* files written by the same synchronization pass
Consistent(d) ==
    \/ d.pins = Absent /\ d.tags = Absent
    \/ /\ d.pins.kind = "array"
       /\ d.tags.kind = "array"
       /\ d.by.pins = d.by.tags

UpdateCacheReturned == ret.op = "update_cache" /\ pc = "idle" /\ alive

\* C1: update_cache is one transaction over the two files: when it returns
\* an error, having started on a consistent cache directory, both files
\* still hold what they held when it was called.
C1_FailedUpdateLeavesSnapshot ==
    (UpdateCacheReturned /\ IsErr(ret.val) /\ Consistent(ret.arg))
        => Disk = ret.arg

\* C2: in every reachable state, between any two steps of update_cache
\* too, the cache directory holds no snapshot or one whole snapshot; no
\* file is truncated or partly written.
C2_SnapshotAbsentOrWhole == Consistent(Disk)

\* C3: once update_cache has returned Ok on a Pinboard value, bookmarks(),
\* tag_pairs(), search_items and search_tag_field on that value work on
\* the collections that call fetched.
C3_ReadsSeeSyncedSnapshot ==
    synced # None =>
        /\ ret.op = "bookmarks" => ret.val = Some(synced.val.pins)
        /\ ret.op = "tag_pairs" => ret.val = Some(synced.val.tags)
        /\ ret.op = "search_items" =>
              ret.val = search_loaded_pins(synced.val.pins, ret.arg.q, ret.arg.fuzzy)
        /\ ret.op = "search_tag_field" =>
              ret.val = search_loaded_tags(synced.val.tags, ret.arg.q, ret.arg.fuzzy)

\* C4: a cache file that does not exist is no error: Pinboard::new still
\* builds the value with nothing loaded, and a search reports no result set.
C4_AbsentFileIsNoError ==
    /\ (ret.op = "new" /\ pins_file = Absent /\ tags_file = Absent)
          => (ret.val = Ok(Unit) /\ alive /\ cached_pins = None /\ cached_tags = None)
    /\ (ret.op = "search_items" /\ pins_file = Absent /\ cached_pins = None)
          => ret.val = Ok(None)
    /\ (ret.op = "search_tag_field" /\ tags_file = Absent /\ cached_tags = None)
          => ret.val = Ok(None)

\* a file that exists and does not hold a serialized collection
Unreadable(file) == file.kind \in {"empty", "partial", "nil"}

\* C5: a cache file that exists and holds no decodable collection makes
\* Pinboard::new, search_items and search_tag_field return an error; its
\* content is never taken for an absent snapshot and reported as no match.
C5_UnreadableFileIsAnError ==
    /\ (ret.op = "new" /\ (Unreadable(pins_file) \/ Unreadable(tags_file)))
          => (IsErr(ret.val) /\ ~alive)
    /\ (ret.op = "search_items" /\ Unreadable(pins_file) /\ cached_pins = None)
          => IsErr(ret.val)
    /\ (ret.op = "search_tag_field" /\ Unreadable(tags_file) /\ cached_tags = None)
          => IsErr(ret.val)

\* the time a reply to /posts/update reports, None when the request or the
\* decoding of its body failed
ReportedTime(reply) ==
    IF /\ reply.net = "ok" /\ reply.status \in {200, 201} /\ reply.readable
       /\ reply.body \in {JObj([update_time |-> JStr(<<"ts", t>>)]) : t \in Times}
    THEN Some(reply.body.f["update_time"].s[2])
    ELSE None

\* is_cache_outdated answers true exactly when the caller's time is strictly
\* earlier than the time the remote reports
StaleIffStrictlyEarlier ==
    ret.op = "is_cache_outdated" =>
        LET T == ret.arg.last_update
            R == ReportedTime(ret.arg.reply)
        IN  R # None => /\ IsOk(ret.val)
                        /\ ret.val.val \in BOOLEAN
                        /\ ret.val.val <=> (T < R.val)
                        /\ T = R.val => ret.val = Ok(FALSE)

\* C6: is_cache_outdated(T) is Ok(true) exactly when T is strictly earlier
\* than the time R the remote reports, Ok(false) when T = R or T is later;
\* when the remote reports no time (the request or the decoding of its
\* reply failed), an error value is returned and no boolean.
C6_StaleIffStrictlyEarlier ==
    /\ StaleIffStrictlyEarlier
    /\ ret.op = "is_cache_outdated" =>
          (ReportedTime(ret.arg.reply) = None => IsErr(ret.val))

----------------------------------------------------------------------------
(* Properties of the Remote Client.                                        *)

MutationOps == {"add_url", "delete", "tag_rename", "tag_delete"}

\* the reply reached the decoder: the request went through with a success
\* status and a readable body
Delivered(reply) == reply.net = "ok" /\ reply.status \in {200, 201} /\ reply.readable

\* the value of field k of a JSON object whose fields are strings, "" when
\* it is missing
FieldOrEmpty(body, k) == IF k \in DOMAIN body.f THEN body.f[k].s ELSE ""

\* a body of the mutation endpoints with string fields only
IsResultBody(body) ==
    body.t = "obj" /\ \A k \in DOMAIN body.f : body.f[k].t = "str"

\* C7: for every pair of values of result_code and result (each possibly
\* missing, hence empty), add_url, delete, tag_rename and tag_delete return
\* Ok iff one of the two is "done"; otherwise the error's message is
\* result_code when that is non-empty, and result when result_code is empty.
C7_ResultNormalization ==
    (api_ret.op \in MutationOps /\ Delivered(api_ret.reply)
        /\ IsResultBody(api_ret.reply.body)) =>
        LET code == FieldOrEmpty(api_ret.reply.body, "result_code")
            res == FieldOrEmpty(api_ret.reply.body, "result")
            out == api_ret.result
        IN  /\ IsOk(out) <=> ("done" \in {code, res})
            /\ ~IsOk(out) => IsErr(out)
            /\ (~IsOk(out) /\ code # "") => out.err.msg = code
            /\ (~IsOk(out) /\ code = "") => out.err.msg = res

\* both fields carry a message, neither is "done": result_code's is reported
C7_Witness ==
    /\ api_ret.op = "delete"
    /\ Delivered(api_ret.reply)
    /\ IsResultBody(api_ret.reply.body)
    /\ FieldOrEmpty(api_ret.reply.body, "result_code") = "item not found"
    /\ FieldOrEmpty(api_ret.reply.body, "result") = "rename to null"
    /\ api_ret.result = Err(ApiError("Msg", "item not found"))

\* C8: tags_frequency decodes a name-to-count mapping into one Tag per
\* entry; an empty mapping and an empty list both give no Tags; every
\* non-empty list comes back as an error value, never as a panic.
C8_TagFrequencyDecode ==
    (api_ret.op = "tags_frequency" /\ Delivered(api_ret.reply)) =>
        LET body == api_ret.reply.body
            out == api_ret.result
        IN  /\ is_count_map(body) =>
                  /\ IsOk(out)
                  /\ Len(out.val) = Cardinality(DOMAIN body.f)
                  /\ Range(out.val) = {Tag(k, body.f[k].n) : k \in DOMAIN body.f}
            /\ body = JArr(<<>>) => out = Ok(<<>>)
            /\ (body.t = "arr" /\ body.items # <<>>) => IsErr(out)

\* C9: every non-success status, 429 and statuses without a reason phrase
\* included, makes every operation return a ServerError value carrying the
\* status's reason phrase, after exactly one request; it never panics.
C9_NonSuccessIsServerError ==
    (api_ret.op # "none" /\ api_ret.reply.net = "ok"
        /\ ~is_success(api_ret.reply.status)) =>
        /\ IsErr(api_ret.result)
        /\ api_ret.result.err.kind = "ServerError"
        /\ api_ret.requests = 1

\* the raw records of RawRecords that are bookmarks with a URL that parses
ValidRecords == {PinJson(PinOf(1)), PinJson(PinOf(2))}

\* the bookmark a valid raw record stands for
PinOfRecord(v) == IF v = PinJson(PinOf(1)) THEN PinOf(1) ELSE PinOf(2)

\* C10: for a payload that is an array of n raw records of which k fail to
\* decode or have a URL that does not parse, all_pins returns Ok with
\* exactly the n-k valid records in their original order; a payload that
\* is not an array is an error, and no other payload is.
C10_AllPinsKeepsValidRecords ==
    (api_ret.op = "all_pins" /\ Delivered(api_ret.reply)) =>
        LET body == api_ret.reply.body
            out == api_ret.result
        IN  IF body.t = "arr"
            THEN LET valid == SelectSeq(body.items, LAMBDA v : v \in ValidRecords)
                     k == Cardinality({i \in DOMAIN body.items :
                                          body.items[i] \notin ValidRecords})
                 IN  /\ IsOk(out)
                     /\ Len(out.val) = Len(body.items) - k
                     /\ out.val = [i \in DOMAIN valid |-> PinOfRecord(valid[i])]
            ELSE IsErr(out)

\* three records, the middle one with a URL that does not parse: the two
\* others are returned, in order
C10_Witness ==
    /\ api_ret.op = "all_pins"
    /\ Delivered(api_ret.reply)
    /\ api_ret.reply.body.t = "arr"
    /\ Len(api_ret.reply.body.items) = 3
    /\ api_ret.reply.body.items[1] = PinJson(PinOf(2))
    /\ api_ret.reply.body.items[2] \notin ValidRecords
    /\ api_ret.reply.body.items[2].t = "obj"
    /\ "tags" \in DOMAIN api_ret.reply.body.items[2].f
    /\ api_ret.reply.body.items[3] = PinJson(PinOf(1))
    /\ api_ret.result = Ok(<<PinOf(2), PinOf(1)>>)

\* the first entry of a list whose "popular" field is present and not null,
\* None when the list has none
FirstPopular(items) ==
    LET found == {i \in DOMAIN items :
                     /\ items[i].t = "obj"
                     /\ "popular" \in DOMAIN items[i].f
                     /\ items[i].f["popular"] # JNull}
    IN  IF found = {} THEN None
        ELSE Some(items[CHOOSE i \in found : \A j \in found : i <= j])

\* a JSON array all of whose elements are strings
IsStringArray(v) == v.t = "arr" /\ \A i \in DOMAIN v.items : v.items[i].t = "str"

\* C11: for every response list, suggest_tags returns Ok exactly when some
\* entry has a non-null "popular" field; when the first such entry's field
\* is an array of strings the result is that array, in its order; when no
\* entry has one (the empty list too) it is an UnrecognizedResponse error.
C11_SuggestTagsFirstPopular ==
    (api_ret.op = "suggest_tags" /\ Delivered(api_ret.reply)
        /\ api_ret.reply.body.t = "arr") =>
        LET entry == FirstPopular(api_ret.reply.body.items)
            out == api_ret.result
        IN  /\ entry = None =>
                  (IsErr(out) /\ out.err.kind = "UnrecognizedResponse")
            /\ entry # None => IsOk(out)
            /\ (entry # None /\ IsStringArray(entry.val.f["popular"])) =>
                  out = Ok([i \in DOMAIN entry.val.f["popular"].items |->
                               entry.val.f["popular"].items[i].s])

\* an entry without "popular", then two with different string arrays: the
\* first array is returned
C11_Witness ==
    /\ api_ret.op = "suggest_tags"
    /\ Delivered(api_ret.reply)
    /\ api_ret.reply.body.t = "arr"
    /\ Len(api_ret.reply.body.items) = 3
    /\ api_ret.reply.body.items[1] = JObj([recommended |-> JArr(<<JStr("rust")>>)])
    /\ api_ret.reply.body.items[2] =
          JObj([popular |-> JArr(<<JStr("rust"), JStr("library")>>)])
    /\ api_ret.reply.body.items[3] = JObj([popular |-> JArr(<<JStr("datetime")>>)])
    /\ api_ret.result = Ok(<<"rust", "library">>)

----------------------------------------------------------------------------
(* Properties of the Search Engine.                                        *)

\* the records a search returned: none for "no result set"
Matched(val) == IF val.val = None THEN <<>> ELSE val.val.val

\* a search in the given mode returned a result over a loaded collection
SearchReturned(op, fuzzy, cached) ==
    ret.op = op /\ ret.arg.fuzzy = fuzzy /\ IsOk(ret.val) /\ cached # None

\* q occurs in text, both case-folded
FoldedContains(text, q) == str_contains(to_lowercase(text), to_lowercase(q))

\* C12: with fuzzy search disabled, search_items returns the Bookmarks whose
\* case-folded URL, title or tag text contains the case-folded query, and
\* search_tag_field the Tags whose case-folded name contains it.
C12_ExactSearchFoldsBothSides ==
    /\ SearchReturned("search_items", FALSE, cached_pins) =>
          Matched(ret.val) =
             SelectSeq(cached_pins.val,
                       LAMBDA p : \/ FoldedContains(p.url, ret.arg.q)
                                  \/ FoldedContains(p.title, ret.arg.q)
                                  \/ FoldedContains(p.tags, ret.arg.q))
    /\ SearchReturned("search_tag_field", FALSE, cached_tags) =>
          Matched(ret.val) =
             SelectSeq(cached_tags.val, LAMBDA t : FoldedContains(t[1], ret.arg.q))

\* the characters of q occur in text from position from on, in order,
\* each taken literally and compared case-folded
RECURSIVE IsSubsequence(_, _, _)
IsSubsequence(q, text, from) ==
    IF q = <<>> THEN TRUE
    ELSE \E k \in from..Len(text) :
            /\ Lower(Head(q)) = Lower(text[k])
            /\ IsSubsequence(Tail(q), text, k + 1)

\* a fuzzy search ran over a loaded collection whose file is present
FuzzySearchRan(op, file, cached) ==
    ret.op = op /\ ret.arg.fuzzy /\ file # Absent /\ cached # None

\* C13: with fuzzy search enabled, for every query, one with characters
\* special to the pattern language included, search_items and
\* search_tag_field return Ok with exactly the records that hold the
\* query's characters literally, in order, case-insensitively; never an
\* invalid-pattern error.
C13_FuzzyQueryIsLiteral ==
    /\ FuzzySearchRan("search_items", pins_file, cached_pins) =>
          /\ IsOk(ret.val)
          /\ Matched(ret.val) =
                SelectSeq(cached_pins.val,
                          LAMBDA p : \/ IsSubsequence(ret.arg.q, p.url, 1)
                                     \/ IsSubsequence(ret.arg.q, p.title, 1)
                                     \/ IsSubsequence(ret.arg.q, p.tags, 1))
    /\ FuzzySearchRan("search_tag_field", tags_file, cached_tags) =>
          /\ IsOk(ret.val)
          /\ Matched(ret.val) =
                SelectSeq(cached_tags.val,
                          LAMBDA t : IsSubsequence(ret.arg.q, t[1], 1))

\* one of the two modes was run on a one-record collection
Matching == ret.op \in {"match_tag", "match_pin"}

\* the mode's search found the record
Found(val) == IsOk(val) /\ val.val # None

\* on a text of one line, a fuzzy search with ordinary characters finds the
\* record exactly when the query is a case-insensitive subsequence of it
FuzzyIsSubsequenceOnOneLine ==
    (Matching /\ \A i \in DOMAIN ret.arg.text : ret.arg.text[i] # "\n") =>
        /\ IsOk(ret.val.fuzzy)
        /\ Found(ret.val.fuzzy) <=> IsSubsequence(ret.arg.q, ret.arg.text, 1)

\* C14: with fuzzy search enabled, a query of ordinary characters c1..cn
\* matches a text iff the text holds c1..cn in that order as a
\* subsequence, case-insensitively and anchored at neither end ("dtm"
\* matches "datetime", not "mtd"); a tag name that exact mode matches is
\* matched by fuzzy mode too.
C14_FuzzyIsSubsequence ==
    Matching =>
        /\ IsOk(ret.val.fuzzy)
        /\ Found(ret.val.fuzzy) <=> IsSubsequence(ret.arg.q, ret.arg.text, 1)
        /\ (ret.op = "match_tag" /\ Found(ret.val.exact)) => Found(ret.val.fuzzy)

\* the mode's test of one Bookmark, and of one Tag
PinMatches(p, q, fuzzy) ==
    IF fuzzy THEN Pin_contains_fuzzy(p, q) ELSE Pin_contains(p, to_lowercase(q))

TagMatches(t, q, fuzzy) ==
    IF fuzzy THEN regex_match(q, t[1], 1)
    ELSE str_contains(to_lowercase(t[1]), to_lowercase(q))

\* val is "no result set" iff hits is empty, and otherwise lists the
\* records of collection at the positions hits, each once, in their order
ListsExactly(val, collection, hits) ==
    LET r == Matched(val) IN
    /\ (val.val = None) <=> (hits = {})
    /\ Len(r) = Cardinality(hits)
    /\ \E idx \in [DOMAIN r -> hits] :
          /\ \A i, j \in DOMAIN r : i < j => idx[i] < idx[j]
          /\ \A i \in DOMAIN r : r[i] = collection[idx[i]]

----------------------------------------------------------------------------
(* Properties of the mutations and of the bookmark record.                 *)

\* Pinboard::add, successful or not, leaves both cache files as they were
AddLeavesFiles == [][Add => UNCHANGED <<pins_file, tags_file>>]_vars

\* C16: Pinboard::add, whether it succeeds or fails, leaves the loaded
\* bookmark and tag collections and both cache files unchanged.
C16_AddLeavesSnapshot ==
    [][Add => UNCHANGED <<cached_pins, cached_tags, pins_file, tags_file>>]_vars

\* the round trip is exact on collections whose Pins have an empty tag list
RoundTripWithoutTagList ==
    (ret.op = "store_then_load"
        /\ \A i \in DOMAIN ret.arg.pins : ret.arg.pins[i].tag_list = <<>>) =>
        /\ ret.val.pins = Ok(Some(ret.arg.pins))
        /\ ret.val.tags = Ok(Some(ret.arg.tags))

\* C17: for every Bookmark collection and every Tag collection, storing it
\* as update_cache does and loading it as get_cached_pins / get_cached_tags
\* do gives the same collection: every field of every record, the parsed
\* tag list included, in the same order.
C17_SnapshotRoundTrip ==
    ret.op = "store_then_load" =>
        /\ ret.val.pins = Ok(Some(ret.arg.pins))
        /\ ret.val.tags = Ok(Some(ret.arg.tags))

\* the texts of a list joined by single spaces
RECURSIVE JoinBySpaces(_)
JoinBySpaces(list) ==
    IF list = <<>> THEN <<>>
    ELSE IF Len(list) = 1 THEN list[1]
    ELSE list[1] \o <<" ">> \o JoinBySpaces(Tail(list))

\* C18: after Pin::new and after every sequence of set_tags and
\* set_tags_str calls, the Pin's tag text equals its tag list joined by
\* single spaces.
C18_TagTextMatchesTagList ==
    ret.op \in PinOps => ret.val.tags = JoinBySpaces(ret.val.tag_list)

============================================================================
